---- MODULE Spec2Model ----
(***************************************************************************)
(* Model of library/std/src/sys/unix/fs/dir_fd.rs: the descriptor-relative *)
(* recursive directory removal (remove_dir_all_modern, remove_dir_all_loop,*)
(* OpenDir::open_or_unlink, openat_nofollow_dironly, is_dir) running       *)
(* against a small filesystem of inodes and directory entries.             *)
(***************************************************************************)
EXTENDS Integers, Sequences, FiniteSets, TLC

\* ------------------------------------------------------------------------
\* Bounds of the model
\* ------------------------------------------------------------------------
\* number of inodes that may be placed below the deletion root
MaxNodes == 3
\* number of filesystem mutations another process may perform during a call
MaxAdv == 1
\* number of inodes below the root when another process mutates the tree
MaxRaceNodes == 1
\* number of signals that may interrupt syscalls of a call
MaxIntr == 1
\* number of inodes below the root when signals are delivered
MaxIntrNodes == 2
\* number of calls made in succession on the same path
MaxCalls == 2
\* number of inodes below the root when the call is repeated
MaxTwiceNodes == 2
\* number of inodes below the root when directories are swapped for symlinks
MaxSwapNodes == 2

\* ------------------------------------------------------------------------
\* libc constants used by the source
\* ------------------------------------------------------------------------
AT_FDCWD == -100
AT_REMOVEDIR == 512

\* ------------------------------------------------------------------------
\* The filesystem
\* ------------------------------------------------------------------------
\* Fixed inodes: the working directory, the object at the root path, a
\* directory outside the tree (the target of every symlink) with one file in
\* it, and two siblings of the root that share names with tree entries.
Ino == [cwd |-> 0, root |-> 1, outdir |-> 2, outfile |-> 3, sibdir |-> 4, sibfile |-> 5]

Pool == (Ino.sibfile + 1)..(Ino.sibfile + MaxNodes)
AdvPool == (Ino.sibfile + MaxNodes + 1)..(Ino.sibfile + MaxNodes + MaxAdv)
Inodes == 0..(Ino.sibfile + MaxNodes + MaxAdv)

\* entry names inside the tree, and the path handed to remove_dir_all
Names == {"a", "b"}
RootPath == "t"

Types == {"dir", "file", "symlink"}

VARIABLES
    itype,      \* inode -> "dir" | "file" | "symlink" | "none"
    dirents,    \* directory inode -> (name -> inode), a partial map
    fdIno,      \* descriptor table: k-th descriptor opened -> its inode
    nclose,     \* number of times each descriptor was closed
    pc,         \* position of the call
    current,    \* <<>> or <<the current OpenDir>>
    ancestors,  \* the Vec<OpenDir> of remove_dir_all_loop
    result,     \* "none" while running, then "Ok" or the errno returned
    trace,      \* syscalls issued by the call, in order
    adv,        \* mutations performed by the other process
    faults,     \* whether syscalls may fail for reasons outside the model
    root0,      \* what the root path denoted when the call began
    dirents0,   \* the directory entries when the call began
    intr,       \* signals that may still interrupt a syscall of the call
    calls,      \* number of calls begun on the root path so far
    prev        \* <<>> or <<result and directory entries the previous call left>>

vars == <<itype, dirents, fdIno, nclose, pc, current, ancestors, result, trace,
          adv, faults, root0, dirents0, intr, calls, prev>>

NoEntries == [n \in {} |-> 0]

Put(f, n, i) == [m \in (DOMAIN f) \cup {n} |-> IF m = n THEN i ELSE f[m]]

Del(f, n) == [m \in (DOMAIN f) \ {n} |-> f[m]]

\* an inode is linked when some directory entry names it
Linked(i) == \E d \in Inodes : \E n \in DOMAIN dirents[d] : dirents[d][n] = i

\* ------------------------------------------------------------------------
\* Initial filesystems
\* ------------------------------------------------------------------------
BaseType(r) ==
    [i \in Inodes |->
        IF i = Ino.cwd \/ i = Ino.outdir \/ i = Ino.sibdir THEN "dir"
        ELSE IF i = Ino.outfile \/ i = Ino.sibfile THEN "file"
        ELSE IF i = Ino.root THEN r
        ELSE "none"]

BaseEnts(r) ==
    [i \in Inodes |->
        IF i = Ino.cwd
        THEN IF r = "none"
             THEN [n \in {"s", "a", "b"} |->
                      IF n = "s" THEN Ino.outdir
                      ELSE IF n = "a" THEN Ino.sibdir ELSE Ino.sibfile]
             ELSE [n \in {RootPath, "s", "a", "b"} |->
                      IF n = RootPath THEN Ino.root
                      ELSE IF n = "s" THEN Ino.outdir
                      ELSE IF n = "a" THEN Ino.sibdir ELSE Ino.sibfile]
        ELSE IF i = Ino.outdir THEN [n \in {"a"} |-> Ino.outfile]
        ELSE NoEntries]

Base(r) == [itype |-> BaseType(r), dirents |-> BaseEnts(r)]

\* where inode i is entered in fs: <<directory, name>>
Where(fs, i) ==
    CHOOSE x \in Inodes \X Names :
        x[2] \in DOMAIN fs.dirents[x[1]] /\ fs.dirents[x[1]][x[2]] = i

\* Inodes are numbered in the order of their place in the tree (directory
\* number, then name), so that each tree is built once and not once per
\* numbering of its objects.
After(fs, i, d, n) ==
    \/ i = Ino.sibfile + 1
    \/ LET w == Where(fs, i - 1)
       IN w[1] < d \/ (w[1] = d /\ w[2] = "a" /\ n = "b")

\* the filesystems obtained from fs by placing inode i as a new entry
Extend(fs, i) ==
    { [itype |-> [fs.itype EXCEPT ![i] = t],
       dirents |-> [fs.dirents EXCEPT ![d] = Put(@, n, i)]] :
        <<d, n, t>> \in
            { x \in ({Ino.root} \cup Pool) \X Names \X Types :
                /\ fs.itype[x[1]] = "dir"
                /\ x[2] \notin DOMAIN fs.dirents[x[1]]
                /\ After(fs, i, x[1], x[2]) } }

RECURSIVE Trees(_)
Trees(k) ==
    IF k = 0 THEN {Base("dir")}
    ELSE UNION { Extend(fs, Ino.sibfile + k) : fs \in Trees(k - 1) }

InitFS(n) ==
    UNION { Trees(k) : k \in 0..n }
        \cup {Base("file"), Base("symlink"), Base("none")}

InitOn(fss, f, sig) ==
    /\ \E fs \in fss :
        /\ itype = fs.itype
        /\ dirents = fs.dirents
        /\ dirents0 = fs.dirents
        /\ root0 = fs.itype[Ino.root]
    /\ fdIno = <<>>
    /\ nclose = <<>>
    /\ pc = "start"
    /\ current = <<>>
    /\ ancestors = <<>>
    /\ result = "none"
    /\ trace = <<>>
    /\ adv = 0
    /\ faults = f
    /\ intr = sig
    /\ calls = 1
    /\ prev = <<>>

Init == InitOn(InitFS(MaxNodes), TRUE, 0)

\* ------------------------------------------------------------------------
\* Descriptors and the syscall log
\* ------------------------------------------------------------------------
OpenFds == {fd \in DOMAIN fdIno : nclose[fd] = 0}

HeldInos == {fdIno[fd] : fd \in OpenFds}

\* a descriptor argument the kernel accepts
Live(dirfd) == dirfd = AT_FDCWD \/ dirfd \in OpenFds

DirOf(dirfd) == IF dirfd = AT_FDCWD THEN Ino.cwd ELSE fdIno[dirfd]

\* Option<T>: <<>> is None, <<x>> is Some(x)
unwrap_or(opt, default) == IF opt = <<>> THEN default ELSE opt[1]

\* one issued syscall: dir is the directory the kernel resolved dirfd to, ino
\* the object it acted on (if any), held the directories open at that moment
Op(call, dirfd, name, flags, res, ino) ==
    [call |-> call, dirfd |-> dirfd, name |-> name, flags |-> flags, res |-> res,
     dir |-> IF Live(dirfd) THEN <<DirOf(dirfd)>> ELSE <<>>,
     ino |-> ino, held |-> HeldInos, live |-> Live(dirfd), hint |-> ""]

\* fdopendir(fd) on the descriptor openat has just returned
FdOpenDirOp(fd, res) ==
    [call |-> "fdopendir", dirfd |-> fd, name |-> "", flags |-> 0, res |-> res,
     dir |-> <<>>, ino |-> <<>>, held |-> HeldInos, live |-> TRUE, hint |-> ""]

\* readdir.next() on an open stream: the entry name and type hint it yielded
ReadDirOp(fd, name, hint, res) ==
    [call |-> "readdir", dirfd |-> fd, name |-> name, flags |-> 0, res |-> res,
     dir |-> <<DirOf(fd)>>, ino |-> <<>>, held |-> HeldInos, live |-> Live(fd),
     hint |-> hint]

Close(nc, fd) == [nc EXCEPT ![fd] = @ + 1]

\* dropping OpenDir values closes each one's descriptor (Dir::drop)
Drop(nc, handles) ==
    [fd \in DOMAIN nc |->
        nc[fd] + Cardinality({k \in DOMAIN handles : handles[k].fd = fd})]

\* ------------------------------------------------------------------------
\* Syscalls: each yields the set of outcomes the kernel may produce.  Any
\* syscall may also fail for a reason outside the model (permissions,
\* resources, I/O), which is the extra error in each outcome set.
\* ------------------------------------------------------------------------
Fail(e) == [res |-> e, ino |-> <<>>]

\* the failure for a reason outside the model, when such failures happen
Other(x) == IF faults THEN {x} ELSE {}

\* the failure of a blocking syscall a signal arrived in
Interrupted(x) == IF intr > 0 THEN {x} ELSE {}

\* the errors a syscall may fail with whatever the filesystem holds
Errnos == Other("EACCES") \cup Interrupted("EINTR")

\* openat without O_NOFOLLOW: a symlink is resolved to its target
openat_follow(dirfd, p) ==
    IF ~Live(dirfd) THEN {Fail("EBADF")}
    ELSE LET d == DirOf(dirfd) IN
        IF p \notin DOMAIN dirents[d] THEN {Fail("ENOENT")}
        ELSE LET i == dirents[d][p] IN
            IF itype[i] = "dir" THEN {[res |-> "ok", ino |-> <<i>>]}
            ELSE IF itype[i] = "symlink" THEN {[res |-> "ok", ino |-> <<Ino.outdir>>]}
            ELSE {Fail("ENOTDIR")}

\* openat(dirfd, p, O_CLOEXEC | O_RDONLY | O_NOFOLLOW | O_DIRECTORY)
openat(dirfd, p) ==
    IF ~Live(dirfd) THEN {Fail("EBADF")}
    ELSE LET d == DirOf(dirfd) IN
        IF p \notin DOMAIN dirents[d] THEN {Fail("ENOENT")} \cup {Fail(e) : e \in Errnos}
        ELSE LET i == dirents[d][p] IN
            IF itype[i] = "dir" THEN {[res |-> "ok", ino |-> <<i>>]} \cup {Fail(e) : e \in Errnos}
            ELSE IF itype[i] = "symlink"
            THEN {Fail("ENOTDIR"), Fail("ELOOP")} \cup {Fail(e) : e \in Errnos}
            ELSE {Fail("ENOTDIR")} \cup {Fail(e) : e \in Errnos}

\* unlinkat(dirfd, name, flags): the errno, the object removed and the
\* directory entries afterwards
UFail(e) == [res |-> e, ino |-> <<>>, dirents |-> dirents]

unlinkat(dirfd, name, flags) ==
    IF ~Live(dirfd) THEN {UFail("EBADF")}
    ELSE LET d == DirOf(dirfd) IN
        IF name \notin DOMAIN dirents[d] THEN {UFail("ENOENT")} \cup {UFail(e) : e \in Errnos}
        ELSE LET i == dirents[d][name]
                 gone == [res |-> "ok", ino |-> <<i>>,
                          dirents |-> [dirents EXCEPT ![d] = Del(@, name)]]
             IN IF flags = AT_REMOVEDIR
                THEN IF itype[i] # "dir" THEN {UFail("ENOTDIR")} \cup {UFail(e) : e \in Errnos}
                     ELSE IF DOMAIN dirents[i] # {}
                     THEN {UFail("ENOTEMPTY")} \cup {UFail(e) : e \in Errnos}
                     ELSE {gone} \cup {UFail(e) : e \in Errnos}
                ELSE IF itype[i] = "dir" THEN {UFail("EISDIR")} \cup {UFail(e) : e \in Errnos}
                     ELSE {gone} \cup {UFail(e) : e \in Errnos}

\* lstat(p): the type of the object the path names, not following a symlink
LFail(e) == [res |-> e, type |-> "none"]

lstat(p) ==
    IF p \notin DOMAIN dirents[Ino.cwd] THEN {LFail("ENOENT")} \cup {LFail(e) : e \in Errnos}
    ELSE {[res |-> "ok", type |-> itype[dirents[Ino.cwd][p]]]} \cup {LFail(e) : e \in Errnos}

\* ------------------------------------------------------------------------
\* openat_nofollow_dironly
\* ------------------------------------------------------------------------
\* cvt without the retry: the first outcome is the result
cvt_once(outs) == {[res |-> o.res, ino |-> o.ino, eintr |-> 0] : o \in outs}

\* cvt_r(f): f is called again for as long as it fails with EINTR; the
\* result is the first other outcome, after eintr interrupted attempts
cvt_r(outs) ==
    {[res |-> o.res, ino |-> o.ino, eintr |-> k] :
        o \in {x \in outs : x.res # "EINTR"},
        k \in 0..(IF \E x \in outs : x.res = "EINTR" THEN intr ELSE 0)}

openat_nofollow_dironly(parent_fd, p) ==
    cvt_r(openat(unwrap_or(parent_fd, AT_FDCWD), p))

\* ------------------------------------------------------------------------
\* is_dir: the tri-state type hint of a directory entry
\* ------------------------------------------------------------------------
DType(t) == IF t = "dir" THEN "DT_DIR" ELSE IF t = "file" THEN "DT_REG" ELSE "DT_LNK"

\* DT_UNKNOWN taken for a non-directory
is_dir_unknown_is_file(d_type) == IF d_type = "DT_DIR" THEN <<TRUE>> ELSE <<FALSE>>

is_dir(d_type) ==
    IF d_type = "DT_UNKNOWN" THEN <<>>
    ELSE IF d_type = "DT_DIR" THEN <<TRUE>>
    ELSE <<FALSE>>

\* ------------------------------------------------------------------------
\* OpenDir and OpenDir::open_or_unlink
\* ------------------------------------------------------------------------
\* struct OpenDir { readdir, fd, name }: the stream is the entries buffered
\* but not yet yielded (buf) and the names yielded so far (seen)
OpenDir(fd, name) == [fd |-> fd, name |-> name, buf |-> {}, seen |-> {}]

\* io::Result<Option<OpenDir>> together with the effects of the call
Outcome(ret, err, de, fi, nc, ops, handle) ==
    [ret |-> ret, err |-> err, dirents |-> de, fdIno |-> fi, nclose |-> nc,
     ops |-> ops, handle |-> handle]

\* Err(err) if err.raw_os_error() == Some(libc::ENOTDIR)
is_enotdir_or_any(err) == err \in {"ENOTDIR", "EACCES"}

is_enotdir(err) == err = "ENOTDIR"

\* the arm with the parent_fd match dropped: always unlink, from AT_FDCWD for
\* the deletion root
not_a_directory_unlinks_root(parent_fd, name, opened) ==
    { IF u.res = "ok"
      THEN Outcome("None", "ok", u.dirents, fdIno, nclose,
                   <<opened, Op("unlinkat", unwrap_or(parent_fd, AT_FDCWD), name, 0,
                                u.res, u.ino)>>, <<>>)
      ELSE Outcome("Err", u.res, dirents, fdIno, nclose,
                   <<opened, Op("unlinkat", unwrap_or(parent_fd, AT_FDCWD), name, 0,
                                u.res, u.ino)>>, <<>>) :
        u \in unlinkat(unwrap_or(parent_fd, AT_FDCWD), name, 0) }

\* the arm unlinking by name from the working directory instead of parent_fd
not_a_directory_cwd(parent_fd, name, opened) ==
    IF parent_fd # <<>>
    THEN { IF u.res = "ok"
           THEN Outcome("None", "ok", u.dirents, fdIno, nclose,
                        <<opened, Op("unlinkat", AT_FDCWD, name, 0, u.res, u.ino)>>, <<>>)
           ELSE Outcome("Err", u.res, dirents, fdIno, nclose,
                        <<opened, Op("unlinkat", AT_FDCWD, name, 0, u.res, u.ino)>>, <<>>) :
             u \in unlinkat(AT_FDCWD, name, 0) }
    ELSE {Outcome("Err", "ENOTDIR", dirents, fdIno, nclose, <<opened>>, <<>>)}

\* the arm reporting "already removed" for the deletion root as well
not_a_directory_root_none(parent_fd, name, opened) ==
    IF parent_fd # <<>>
    THEN { IF u.res = "ok"
           THEN Outcome("None", "ok", u.dirents, fdIno, nclose,
                        <<opened, Op("unlinkat", parent_fd[1], name, 0, u.res, u.ino)>>,
                        <<>>)
           ELSE Outcome("Err", u.res, dirents, fdIno, nclose,
                        <<opened, Op("unlinkat", parent_fd[1], name, 0, u.res, u.ino)>>,
                        <<>>) :
             u \in unlinkat(parent_fd[1], name, 0) }
    ELSE {Outcome("None", "ok", dirents, fdIno, nclose, <<opened>>, <<>>)}

\* the arm unlinking in the removal mode for directories
not_a_directory_rmdir(parent_fd, name, opened) ==
    IF parent_fd # <<>>
    THEN { IF u.res = "ok"
           THEN Outcome("None", "ok", u.dirents, fdIno, nclose,
                        <<opened, Op("unlinkat", parent_fd[1], name, AT_REMOVEDIR, u.res,
                                     u.ino)>>, <<>>)
           ELSE Outcome("Err", u.res, dirents, fdIno, nclose,
                        <<opened, Op("unlinkat", parent_fd[1], name, AT_REMOVEDIR, u.res,
                                     u.ino)>>, <<>>) :
             u \in unlinkat(parent_fd[1], name, AT_REMOVEDIR) }
    ELSE {Outcome("Err", "ENOTDIR", dirents, fdIno, nclose, <<opened>>, <<>>)}

\* the ENOTDIR arm: unlink under a parent, propagate for the deletion root
not_a_directory(parent_fd, name, opened) ==
    IF parent_fd # <<>>
    THEN { IF u.res = "ok"
           THEN Outcome("None", "ok", u.dirents, fdIno, nclose,
                        <<opened, Op("unlinkat", parent_fd[1], name, 0, u.res, u.ino)>>,
                        <<>>)
           ELSE Outcome("Err", u.res, dirents, fdIno, nclose,
                        <<opened, Op("unlinkat", parent_fd[1], name, 0, u.res, u.ino)>>,
                        <<>>) :
             u \in unlinkat(parent_fd[1], name, 0) }
    ELSE {Outcome("Err", "ENOTDIR", dirents, fdIno, nclose, <<opened>>, <<>>)}

\* the descriptor left open when fdopendir fails
fdopendir_failed_leak(nc, fd) == nc

\* the descriptor table after fdopendir failed: the OwnedFd is dropped
fdopendir_failed(nc, fd) == Close(nc, fd)

\* the rest of open_or_unlink once openat returned a descriptor for inode i
directory_opened(name, opened, i) ==
    LET fd == Len(fdIno) + 1
        fi == Append(fdIno, i)
        nc == Append(nclose, 0)
    IN { Outcome("Some", "ok", dirents, fi, nc,
                 <<opened, FdOpenDirOp(fd, "ok")>>, <<OpenDir(fd, name)>>) }
        \cup Other(Outcome("Err", "ENOMEM", dirents, fi, fdopendir_failed(nc, fd),
                          <<opened, FdOpenDirOp(fd, "ENOMEM")>>, <<>>))

\* the log of an openat that was interrupted k times before it returned
Retried(k, dirfd, name, ops) ==
    [j \in 1..k |-> Op("openat", dirfd, name, 0, "EINTR", <<>>)] \o ops

open_or_unlink(parent_fd, name) ==
    UNION {
        LET opened == Op("openat", unwrap_or(parent_fd, AT_FDCWD), name, 0, o.res, o.ino)
            rs == IF o.res = "ok" THEN directory_opened(name, opened, o.ino[1])
                  ELSE IF is_enotdir(o.res) THEN not_a_directory(parent_fd, name, opened)
                  ELSE {Outcome("Err", o.res, dirents, fdIno, nclose, <<opened>>, <<>>)}
        IN  {[r EXCEPT !.ops = Retried(o.eintr, unwrap_or(parent_fd, AT_FDCWD), name, @)] :
                r \in rs} :
        o \in openat_nofollow_dironly(parent_fd, name) }

\* ------------------------------------------------------------------------
\* The directory stream of an OpenDir (ReadDir)
\* ------------------------------------------------------------------------
\* a read of the directory: its entries not yet yielded, each with the type
\* the entry has at the moment of the read
Refill(h) ==
    LET d == fdIno[h.fd]
    IN {[name |-> n, type |-> itype[dirents[d][n]]] : n \in (DOMAIN dirents[d]) \ h.seen}

\* the entries readdir.next() may yield; empty when the stream is exhausted
Stream(h) == IF h.buf # {} THEN h.buf ELSE Refill(h)

\* the stream after it yielded e
Yielded(h, e) == [h EXCEPT !.buf = Stream(h) \ {e}, !.seen = @ \cup {e.name}]

\* the d_type of a yielded entry: the filesystem may report DT_UNKNOWN
Hints(e) == {"DT_UNKNOWN", DType(e.type)}

\* ------------------------------------------------------------------------
\* remove_dir_all_modern
\* ------------------------------------------------------------------------
is_symlink_never(type) == FALSE

is_symlink(type) == type = "symlink"

\* the ? on lstat(p)
lstat_failed_ignored(res) == FALSE

lstat_failed_unless_missing(res) == res \notin {"ok", "ENOENT"}

lstat_failed(res) == res # "ok"

\* the signals left once the syscalls of a step are logged
Interrupts(t) == Cardinality({k \in DOMAIN t : t[k].res = "EINTR"})

Signalled == intr' = intr - (Interrupts(trace') - Interrupts(trace))

\* let attr = lstat(p)?; dispatch on attr.file_type().is_symlink()
Lstat ==
    /\ pc = "start"
    /\ \E o \in lstat(RootPath) :
        /\ trace' = Append(trace, Op("lstat", AT_FDCWD, RootPath, 0, o.res, <<>>))
        /\ IF lstat_failed(o.res)
           THEN pc' = "done" /\ result' = o.res
           ELSE /\ pc' = IF is_symlink(o.type) THEN "remove_file" ELSE "open_root"
                /\ result' = result
    /\ UNCHANGED <<itype, dirents, fdIno, nclose, current, ancestors, adv, faults,
                   root0, dirents0, calls, prev>>
    /\ Signalled

\* crate::fs::remove_file(p): unlink of the path itself
RemoveFile ==
    /\ pc = "remove_file"
    /\ \E u \in unlinkat(AT_FDCWD, RootPath, 0) :
        /\ trace' = Append(trace, Op("unlink", AT_FDCWD, RootPath, 0, u.res, u.ino))
        /\ dirents' = u.dirents
        /\ result' = IF u.res = "ok" THEN "Ok" ELSE u.res
    /\ pc' = "done"
    /\ UNCHANGED <<itype, fdIno, nclose, current, ancestors, adv, faults, root0,
                   dirents0, calls, prev>>
    /\ Signalled

\* ------------------------------------------------------------------------
\* remove_dir_all_loop
\* ------------------------------------------------------------------------
\* return from the loop: every OpenDir still owned is dropped
Return(res, nc) ==
    /\ pc' = "done"
    /\ result' = res
    /\ nclose' = Drop(nc, current \o ancestors)
    /\ current' = <<>>
    /\ ancestors' = <<>>

\* let mut current = OpenDir::open_or_unlink(None, cstr(p)?)?.unwrap();
OpenRoot ==
    /\ pc = "open_root"
    /\ \E r \in open_or_unlink(<<>>, RootPath) :
        /\ trace' = trace \o r.ops
        /\ dirents' = r.dirents
        /\ fdIno' = r.fdIno
        /\ IF r.ret = "Some"
           THEN /\ current' = r.handle
                /\ nclose' = r.nclose
                /\ pc' = "loop"
                /\ UNCHANGED <<ancestors, result>>
           ELSE Return(IF r.ret = "None" THEN "panic" ELSE r.err, r.nclose)
    /\ UNCHANGED <<itype, adv, faults, root0, dirents0, calls, prev>>
    /\ Signalled

\* readdir.next() yields Some(Err(_)): child? returns the error
ReadDirErr ==
    /\ pc = "loop"
    /\ faults
    /\ trace' = Append(trace, ReadDirOp(current[1].fd, "", "", "EIO"))
    /\ Return("EIO", nclose)
    /\ UNCHANGED <<itype, dirents, fdIno, adv, faults, root0, dirents0, calls, prev>>
    /\ Signalled

\* current.fd.as_raw_fd(), the descriptor entries are unlinked and opened under
child_dirfd_cwd(h) == AT_FDCWD

child_dirfd(h) == h.fd

\* if let Some(false) = is_dir(&child): just unlink files
DrainUnlink ==
    /\ pc = "loop"
    /\ \E e \in Stream(current[1]) : \E dt \in Hints(e) :
        /\ is_dir(dt) = <<FALSE>>
        /\ \E u \in unlinkat(child_dirfd(current[1]), e.name, 0) :
            /\ trace' = trace \o
                  <<ReadDirOp(current[1].fd, e.name, dt, "ok"),
                    Op("unlinkat", child_dirfd(current[1]), e.name, 0, u.res, u.ino)>>
            /\ dirents' = u.dirents
            /\ IF u.res = "ok"
               THEN /\ current' = <<Yielded(current[1], e)>>
                    /\ UNCHANGED <<pc, result, nclose, ancestors>>
               ELSE Return(u.res, nclose)
    /\ UNCHANGED <<itype, fdIno, adv, faults, root0, dirents0, calls, prev>>
    /\ Signalled

descend_stays(parent, child) == parent

\* let parent = current; current = child;
descend_into(parent, child) == child

push_parent_lost(stack, parent) == stack

\* ancestors.push(parent);
push_parent(stack, parent) == Append(stack, parent)

\* else: try to open the entry as directory, unlink it if it is not; recurse
\* into the newly opened directory
DrainOpen ==
    /\ pc = "loop"
    /\ \E e \in Stream(current[1]) : \E dt \in Hints(e) :
        /\ is_dir(dt) # <<FALSE>>
        /\ \E r \in open_or_unlink(<<child_dirfd(current[1])>>, e.name) :
            /\ trace' = (trace \o <<ReadDirOp(current[1].fd, e.name, dt, "ok")>>) \o r.ops
            /\ dirents' = r.dirents
            /\ fdIno' = r.fdIno
            /\ IF r.ret = "Some"
               THEN /\ ancestors' = push_parent(ancestors, Yielded(current[1], e))
                    /\ current' = <<descend_into(Yielded(current[1], e), r.handle[1])>>
                    /\ nclose' = r.nclose
                    /\ UNCHANGED <<pc, result>>
               ELSE IF r.ret = "None"
               THEN /\ current' = <<Yielded(current[1], e)>>
                    /\ nclose' = r.nclose
                    /\ UNCHANGED <<pc, result, ancestors>>
               ELSE Return(r.err, r.nclose)
    /\ UNCHANGED <<itype, adv, faults, root0, dirents0, calls, prev>>
    /\ Signalled

parent_fd_of_cwd(stack) == AT_FDCWD

\* ancestors.last().map(|open_dir| open_dir.fd.as_raw_fd()).unwrap_or(AT_FDCWD)
parent_fd_of(stack) == IF stack # <<>> THEN stack[Len(stack)].fd ELSE AT_FDCWD

rmdir_failed_ignored(res) == FALSE

\* the ? on cvt(unlinkat(parent_fd, current.name, AT_REMOVEDIR))
rmdir_failed(res) == res # "ok"

walk_complete_early(stack) == Len(stack) <= 1

\* match ancestors.pop() { .., None => return Ok(()) }
walk_complete(stack) == stack = <<>>

ascend_keeps_open(nc, h) == nc

\* Some(parent) => current = parent: the drained OpenDir is dropped
ascend_drop(nc, h) == Close(nc, h.fd)

\* the stream is exhausted: unlink the directory after removing its contents,
\* then go up to the parent directory if we are not done
UnlinkSelf ==
    /\ pc = "loop"
    /\ Stream(current[1]) = {}
    /\ \E u \in unlinkat(parent_fd_of(ancestors), current[1].name, AT_REMOVEDIR) :
        /\ trace' = trace \o
              <<ReadDirOp(current[1].fd, "", "", "end"),
                Op("unlinkat", parent_fd_of(ancestors), current[1].name, AT_REMOVEDIR,
                   u.res, u.ino)>>
        /\ dirents' = u.dirents
        /\ IF rmdir_failed(u.res) THEN Return(u.res, nclose)
           ELSE IF walk_complete(ancestors) THEN Return("Ok", nclose)
           ELSE /\ current' = <<ancestors[Len(ancestors)]>>
                /\ ancestors' = SubSeq(ancestors, 1, Len(ancestors) - 1)
                /\ nclose' = ascend_drop(nclose, current[1])
                /\ UNCHANGED <<pc, result>>
    /\ UNCHANGED <<itype, fdIno, adv, faults, root0, dirents0, calls, prev>>
    /\ Signalled

Next ==
    \/ Lstat
    \/ RemoveFile
    \/ OpenRoot
    \/ ReadDirErr
    \/ DrainUnlink
    \/ DrainOpen
    \/ UnlinkSelf

Spec == Init /\ [][Next]_vars

\* ------------------------------------------------------------------------
\* Another process mutating the filesystem during the call
\* ------------------------------------------------------------------------
\* The other process acts on the entries of directories the call holds open
\* and on the entry at the root path.  (A mutation of a directory the call has
\* not opened yet is the same as the call starting on a different tree.)
AdvTargets ==
    {<<fdIno[fd], n>> : fd \in OpenFds, n \in Names} \cup {<<Ino.cwd, RootPath>>}

AdvActive == pc \in {"open_root", "remove_file", "loop"} /\ adv < MaxAdv

\* the entry is deleted, or renamed out of the directory
AdvRemove ==
    /\ AdvActive
    /\ \E x \in AdvTargets :
        /\ x[2] \in DOMAIN dirents[x[1]]
        /\ dirents' = [dirents EXCEPT ![x[1]] = Del(@, x[2])]
    /\ adv' = adv + 1
    /\ UNCHANGED <<itype, fdIno, nclose, pc, current, ancestors, result, trace, faults,
                   root0, dirents0, intr, calls, prev>>

\* a new object is put under the name, replacing the entry if there is one
\* (creat, mkdir, symlink, or a rename over the entry)
AdvReplace ==
    /\ AdvActive
    /\ \E x \in AdvTargets : \E t \in Types :
        LET i == Ino.sibfile + MaxNodes + adv + 1
        IN /\ itype' = [itype EXCEPT ![i] = t]
           /\ dirents' = [dirents EXCEPT ![x[1]] = Put(@, x[2], i)]
    /\ adv' = adv + 1
    /\ UNCHANGED <<fdIno, nclose, pc, current, ancestors, result, trace, faults, root0,
                   dirents0, intr, calls, prev>>

\* the call with another process running, and no failures outside the model
NextRace ==
    \/ Lstat
    \/ RemoveFile
    \/ OpenRoot
    \/ DrainUnlink
    \/ DrainOpen
    \/ UnlinkSelf
    \/ AdvRemove
    \/ AdvReplace

InitRace == InitOn(InitFS(MaxRaceNodes), FALSE, 0)

SpecRace == InitRace /\ [][NextRace]_vars

\* ------------------------------------------------------------------------
\* Another process swapping directories of the tree for symlinks
\* ------------------------------------------------------------------------
\* a directory entry of a directory the call holds open is replaced by a
\* symlink (rename of a symlink over it, or rmdir/rename away and symlink)
AdvSwapSymlink ==
    /\ pc = "loop"
    /\ adv < MaxAdv
    /\ \E fd \in OpenFds : \E n \in DOMAIN dirents[fdIno[fd]] :
        LET i == Ino.sibfile + MaxNodes + adv + 1
        IN /\ itype[dirents[fdIno[fd]][n]] = "dir"
           /\ itype' = [itype EXCEPT ![i] = "symlink"]
           /\ dirents' = [dirents EXCEPT ![fdIno[fd]] = Put(@, n, i)]
    /\ adv' = adv + 1
    /\ UNCHANGED <<fdIno, nclose, pc, current, ancestors, result, trace, faults, root0,
                   dirents0, intr, calls, prev>>

NextSwap ==
    \/ Lstat
    \/ RemoveFile
    \/ OpenRoot
    \/ DrainUnlink
    \/ DrainOpen
    \/ UnlinkSelf
    \/ AdvSwapSymlink

InitSwap == InitOn(InitFS(MaxSwapNodes), FALSE, 0)

SpecSwap == InitSwap /\ [][NextSwap]_vars

\* ------------------------------------------------------------------------
\* The call with signals arriving during its syscalls
\* ------------------------------------------------------------------------
InitIntr == InitOn(InitFS(MaxIntrNodes), TRUE, MaxIntr)

SpecIntr == InitIntr /\ [][Next]_vars

\* ------------------------------------------------------------------------
\* The call made again on the same path once it returned
\* ------------------------------------------------------------------------
\* remove_dir_all_modern(p) is entered again: nothing of the previous call
\* is kept but the filesystem it left
CallAgain ==
    /\ pc = "done"
    /\ calls < MaxCalls
    /\ calls' = calls + 1
    /\ prev' = <<[result |-> result, dirents |-> dirents]>>
    /\ pc' = "start"
    /\ result' = "none"
    /\ trace' = <<>>
    /\ root0' = IF RootPath \in DOMAIN dirents[Ino.cwd]
                THEN itype[dirents[Ino.cwd][RootPath]] ELSE "none"
    /\ dirents0' = dirents
    /\ UNCHANGED <<itype, dirents, fdIno, nclose, current, ancestors, adv, faults,
                   intr>>

\* successive calls, with no other process and no failures outside the model
NextTwice ==
    \/ Lstat
    \/ RemoveFile
    \/ OpenRoot
    \/ DrainUnlink
    \/ DrainOpen
    \/ UnlinkSelf
    \/ CallAgain

InitTwice == InitOn(InitFS(MaxTwiceNodes), FALSE, 0)

SpecTwice == InitTwice /\ [][NextTwice]_vars

\* ------------------------------------------------------------------------
\* The call scheduled until it returns: a thread that is not blocked in a
\* syscall takes its next step
\* ------------------------------------------------------------------------
SpecFair == Init /\ [][Next]_vars /\ WF_vars(Next)

\* ------------------------------------------------------------------------
\* Vocabulary of the properties
\* ------------------------------------------------------------------------
Done == pc = "done"

\* the objects the tree held when the call began: the root and all below it
TreeInos == {Ino.root} \cup {i \in Pool : \E d \in Inodes : \E n \in DOMAIN dirents0[d] :
                                              dirents0[d][n] = i}

NoSymlinks == \A i \in TreeInos : itype[i] # "symlink"

\* the tree began with a non-empty subdirectory
NestedTree ==
    /\ root0 = "dir"
    /\ \E i \in Pool : itype[i] = "dir" /\ DOMAIN dirents0[i] # {}

Removals == {k \in DOMAIN trace : trace[k].call = "unlinkat" /\ trace[k].res = "ok"}

\* the unlink of the drained deletion root: its own path, from AT_FDCWD
IsRootRmdir(k) ==
    /\ trace[k].call = "unlinkat"
    /\ trace[k].flags = AT_REMOVEDIR
    /\ trace[k].dirfd = AT_FDCWD
    /\ trace[k].name = RootPath
    /\ k > 1
    /\ trace[k - 1].call = "readdir"
    /\ trace[k - 1].res = "end"
    /\ trace[k - 1].dirfd = 1

\* ------------------------------------------------------------------------
\* C1: for a tree without symlinks that nothing else mutates, a successful
\* remove_dir_all leaves the root path absent and no object of the tree
\* linked anywhere in the filesystem.
\* ------------------------------------------------------------------------
C1_SuccessRemovesTree ==
    (Done /\ result = "Ok" /\ root0 = "dir" /\ NoSymlinks)
        => /\ RootPath \notin DOMAIN dirents[Ino.cwd]
           /\ \A i \in TreeInos : ~Linked(i)

C1_Witness ==
    /\ Done /\ result = "Ok" /\ NestedTree /\ NoSymlinks
    /\ Cardinality(TreeInos) = MaxNodes + 1

\* ------------------------------------------------------------------------
\* C2 as stated: with another process deleting and replacing entries, every
\* object the walker removes is, when removed, an entry of a directory whose
\* descriptor the walker holds open.
\* ------------------------------------------------------------------------
\* the other process changed an entry of a directory the walker had opened,
\* and left the entry at the root path alone
EntryMutatedBelowRoot ==
    /\ adv > 0
    /\ RootPath \in DOMAIN dirents[Ino.cwd] => dirents[Ino.cwd][RootPath] = Ino.root
    /\ \A k \in Removals : trace[k].dirfd = AT_FDCWD => trace[k].ino[1] = Ino.root

AfterFirstOpen ==
    {k \in DOMAIN trace :
        /\ trace[k].call \in {"openat", "unlinkat"}
        /\ \E j \in 1..(k - 1) : trace[j].call = "openat"}

C3_AllDescriptorRelative ==
    \A k \in AfterFirstOpen : trace[k].dirfd # AT_FDCWD /\ trace[k].live

\* C3 amended: every open and unlink after the first open is addressed
\* relative to an open descriptor the walker holds, except the unlink of the
\* drained deletion root, which is addressed by the root path from AT_FDCWD.
C3_DescriptorRelativeBelowRoot ==
    \A k \in AfterFirstOpen :
        \/ trace[k].dirfd # AT_FDCWD /\ trace[k].live
        \/ IsRootRmdir(k)

C3_Witness ==
    /\ Done /\ result = "Ok" /\ NestedTree
    /\ \E k \in AfterFirstOpen :
        /\ trace[k].flags = AT_REMOVEDIR
        /\ trace[k].dirfd # AT_FDCWD
        /\ trace[k].res = "ok"

\* ------------------------------------------------------------------------
\* C4: when the root path is a symlink, the call only unlinks the symlink
\* entry: the walker is never started, and the symlink's target, what is
\* beneath it and every other entry stay as they were.
\* ------------------------------------------------------------------------
WalkerCalls == {"openat", "fdopendir", "readdir", "unlinkat"}

NoFailureLogged == \A k \in DOMAIN trace : trace[k].res \in {"ok", "end"}

C4_SymlinkRootOnlyUnlinked ==
    root0 = "symlink" =>
        /\ pc \notin {"open_root", "loop"}
        /\ \A k \in DOMAIN trace : trace[k].call \notin WalkerCalls
        /\ \A d \in Inodes \ {Ino.cwd} : dirents[d] = dirents0[d]
        /\ Del(dirents[Ino.cwd], RootPath) = Del(dirents0[Ino.cwd], RootPath)
        /\ (Done /\ NoFailureLogged) =>
              /\ result = "Ok"
              /\ RootPath \notin DOMAIN dirents[Ino.cwd]
              /\ trace[Len(trace)].call = "unlink"
              /\ trace[Len(trace)].ino = <<Ino.root>>

C4_Witness ==
    /\ root0 = "symlink" /\ Done /\ result = "Ok"
    /\ RootPath \notin DOMAIN dirents[Ino.cwd]
    /\ Linked(Ino.outfile)

\* ------------------------------------------------------------------------
\* C5: for a root directory holding files, empty and non-empty
\* subdirectories, the call changes nothing outside the root's subtree at any
\* point (the working directory keeps every entry but the root's, all other
\* directories keep theirs), and on success everything in the tree is gone.
\* ------------------------------------------------------------------------
C5_OnlySubtreeChanged ==
    root0 = "dir" =>
        /\ \A d \in Inodes \ TreeInos :
              IF d = Ino.cwd
              THEN Del(dirents[d], RootPath) = Del(dirents0[d], RootPath)
              ELSE dirents[d] = dirents0[d]
        /\ itype[Ino.cwd] = "dir"
        /\ \A k \in Removals : trace[k].ino[1] \in TreeInos
        /\ (Done /\ result = "Ok") => \A i \in TreeInos : ~Linked(i)

\* a file, an empty subdirectory and a non-empty subdirectory, all removed
C5_Witness ==
    /\ Done /\ result = "Ok" /\ NestedTree
    /\ \E i \in Pool : itype[i] = "dir" /\ Linked(i) = FALSE /\ DOMAIN dirents0[i] = {}
                          /\ i \in TreeInos
    /\ \E i \in Pool : itype[i] = "file" /\ i \in TreeInos
    /\ \A n \in {"s", "a", "b"} : n \in DOMAIN dirents[Ino.cwd]

\* ------------------------------------------------------------------------
\* C6 as stated: any syscall failure aborts the walk at once: it is the last
\* syscall issued and its errno is the result of the call.
\* ------------------------------------------------------------------------
Failures == {k \in DOMAIN trace : trace[k].res \notin {"ok", "end"}}

AbortsAt(k) == k = Len(trace) /\ Done /\ result = trace[k].res

C6_EveryFailureAborts == \A k \in Failures : AbortsAt(k)

\* the open of an entry under a parent failed with ENOTDIR and the entry was
\* then unlinked under the same parent
IsLeafFallback(k) ==
    /\ trace[k].call = "openat"
    /\ trace[k].res = "ENOTDIR"
    /\ trace[k].dirfd # AT_FDCWD
    /\ k < Len(trace)
    /\ trace[k + 1].call = "unlinkat"
    /\ trace[k + 1].dirfd = trace[k].dirfd
    /\ trace[k + 1].name = trace[k].name
    /\ trace[k + 1].flags = 0

\* C6 amended: any syscall failure aborts the walk at once and is returned,
\* except a directory-only open of an entry under a parent that fails with
\* ENOTDIR, after which that entry is unlinked and the walk goes on; entries
\* removed before an abort stay removed.
C6_FailureAbortsExceptLeafFallback ==
    /\ \A k \in Failures : AbortsAt(k) \/ IsLeafFallback(k)
    /\ (Done /\ result # "Ok") => Failures # {} /\ AbortsAt(Len(trace))
    /\ \A k \in Removals : ~Linked(trace[k].ino[1])

\* the walk fails after it has removed something
C6_Witness ==
    /\ Done /\ result = "EACCES"
    /\ Removals # {}
    /\ trace[Len(trace)].call = "unlinkat"
    /\ \E i \in TreeInos : Linked(i)

\* ------------------------------------------------------------------------
\* C7: every descriptor the call opens is closed exactly once and never
\* passed to a syscall after its close; once the call has returned, by
\* success or by any error (a failed fdopendir included), none is open.
\* ------------------------------------------------------------------------
Handles == current \o ancestors

C7_DescriptorsClosedOnce ==
    /\ \A fd \in DOMAIN fdIno : nclose[fd] <= 1
    /\ \A k \in DOMAIN trace : trace[k].live
    /\ \A k \in DOMAIN Handles : Handles[k].fd \in OpenFds
    /\ \A j, k \in DOMAIN Handles : Handles[j].fd = Handles[k].fd => j = k
    /\ Done => \A fd \in DOMAIN fdIno : nclose[fd] = 1

\* fdopendir failed on a freshly opened subdirectory, two levels were open
C7_Witness ==
    /\ Done /\ result = "ENOMEM"
    /\ Len(fdIno) = 3
    /\ trace[Len(trace)].call = "fdopendir"
    /\ \A fd \in DOMAIN fdIno : nclose[fd] = 1

\* ------------------------------------------------------------------------
\* C8: while the walk runs, the descriptors it holds open number the length
\* of the ancestor stack plus one, which is at most the depth below the root
\* of the directory being drained plus one, however many entries a directory
\* has.
\* ------------------------------------------------------------------------
ParentOf(i) == CHOOSE d \in Inodes : \E n \in DOMAIN dirents[d] : dirents[d][n] = i

RECURSIVE DepthBelowRoot(_)
DepthBelowRoot(i) == IF i = Ino.root THEN 0 ELSE 1 + DepthBelowRoot(ParentOf(i))

C9_FileRootNotRemoved ==
    root0 = "file" =>
        /\ RootPath \in DOMAIN dirents[Ino.cwd]
        /\ dirents[Ino.cwd][RootPath] = Ino.root
        /\ dirents = dirents0
        /\ \A k \in DOMAIN trace : trace[k].call \notin {"unlink", "unlinkat"}
        /\ pc # "loop"
        /\ Done =>
              /\ result \in {"ENOTDIR", "EACCES"}
              /\ result = trace[Len(trace)].res
              /\ trace[Len(trace)].call = "openat" =>
                    trace[Len(trace)].dirfd = AT_FDCWD

C9_Witness ==
    /\ root0 = "file" /\ Done /\ result = "ENOTDIR"
    /\ trace[Len(trace)].call = "openat"
    /\ Linked(Ino.root)

\* ------------------------------------------------------------------------
\* C10: on a path that does not exist the call issues no open and no unlink,
\* leaves the filesystem as it was, and returns the error of lstat, ENOENT
\* unless lstat failed for another reason.
\* ------------------------------------------------------------------------
C10_MissingRootNoEffect ==
    root0 = "none" =>
        /\ dirents = dirents0
        /\ \A k \in DOMAIN trace : trace[k].call = "lstat"
        /\ fdIno = <<>>
        /\ Done =>
              /\ Len(trace) = 1
              /\ result = trace[1].res
              /\ result \in {"ENOENT", "EACCES"}

C10_Witness ==
    /\ root0 = "none" /\ Done /\ result = "ENOENT"
    /\ dirents = dirents0

\* ------------------------------------------------------------------------
\* C11: when a call succeeded and the same path is removed again at once,
\* the second call issues nothing but its lstat, returns "does not exist",
\* and leaves the filesystem as the first call left it
\* ------------------------------------------------------------------------
AfterSuccess == calls >= 2 /\ prev[1].result = "Ok"

C11_SecondCallIdempotent ==
    AfterSuccess =>
        /\ dirents = prev[1].dirents
        /\ \A k \in DOMAIN trace : k = 1 /\ trace[k].call = "lstat"
        /\ Done => result = "ENOENT" /\ Len(trace) = 1

C11_Witness ==
    /\ AfterSuccess
    /\ Done
    /\ result = "ENOENT"
    /\ Ino.root \notin {dirents[Ino.cwd][n] : n \in DOMAIN dirents[Ino.cwd]}
    /\ \E i \in Pool : itype[i] = "dir" /\ DOMAIN dirents[i] = {}

\* ------------------------------------------------------------------------
\* C12: interruption by a signal
\* ------------------------------------------------------------------------
\* the syscall logged at k is issued again, with the same arguments, next
Retry(k) ==
    /\ k < Len(trace)
    /\ trace[k + 1].call = trace[k].call
    /\ trace[k + 1].dirfd = trace[k].dirfd
    /\ trace[k + 1].name = trace[k].name
    /\ trace[k + 1].flags = trace[k].flags

IsFailure(k) == trace[k].res \notin {"ok", "end"}

\* C12 as stated: every syscall that fails with EINTR is retried and the
\* call never returns EINTR; no other failure is retried
C12_EveryInterruptRetried ==
    /\ result # "EINTR"
    /\ \A k \in DOMAIN trace : trace[k].res = "EINTR" => Retry(k)
    /\ \A k \in DOMAIN trace : IsFailure(k) /\ trace[k].res # "EINTR" => ~Retry(k)

\* C12 amended: an openat that fails with EINTR is retried and its EINTR is
\* never what the call returns; an lstat, unlinkat or unlink that fails with
\* EINTR is not retried and the call returns EINTR at once; no failure other
\* than an interrupted openat is retried
C12_OnlyOpenatInterruptRetried ==
    /\ \A k \in DOMAIN trace :
          trace[k].res = "EINTR" /\ trace[k].call = "openat" => Retry(k)
    /\ \A k \in DOMAIN trace :
          trace[k].res = "EINTR" /\ trace[k].call # "openat" =>
              k = Len(trace) /\ Done /\ result = "EINTR"
    /\ result = "EINTR" =>
          /\ trace[Len(trace)].res = "EINTR"
          /\ trace[Len(trace)].call \in {"lstat", "unlinkat", "unlink"}
    /\ \A k \in DOMAIN trace :
          IsFailure(k) /\ ~(trace[k].res = "EINTR" /\ trace[k].call = "openat") => ~Retry(k)

\* an openat below the root was interrupted, retried, and the call went on to
\* succeed
C12_Witness ==
    /\ result = "Ok"
    /\ \E k \in DOMAIN trace :
          /\ trace[k].call = "openat"
          /\ trace[k].res = "EINTR"
          /\ trace[k].dirfd # AT_FDCWD
          /\ trace[k + 1].res = "ok"

\* ------------------------------------------------------------------------
\* C13: deletion is post-order.  The rmdir of a directory is issued right
\* after its stream reported the end; every entry the stream yielded was
\* removed from the directory before that, a subdirectory by its own rmdir;
\* nothing is removed from a directory once its rmdir was issued, and the
\* rmdir that succeeds removes the directory whose stream ended
\* ------------------------------------------------------------------------
Rmdirs == {k \in DOMAIN trace : trace[k].call = "unlinkat" /\ trace[k].flags = AT_REMOVEDIR}

\* the entries the stream of directory d yielded before position k
YieldedBefore(d, k) ==
    {j \in 1..(k - 1) : /\ trace[j].call = "readdir"
                        /\ trace[j].res = "ok"
                        /\ trace[j].dir = <<d>>}

\* the entry yielded at j was removed from directory d before position k
RemovedBetween(d, j, k) ==
    \E m \in Removals :
        /\ j < m
        /\ m < k
        /\ trace[m].dir = <<d>>
        /\ trace[m].name = trace[j].name
        /\ itype[trace[m].ino[1]] = "dir" <=> trace[m].flags = AT_REMOVEDIR

C13_PostOrder ==
    \A k \in Rmdirs :
        /\ k > 1
        /\ trace[k - 1].call = "readdir"
        /\ trace[k - 1].res = "end"
        /\ trace[k].res = "ok" => trace[k].ino = trace[k - 1].dir
        /\ \A j \in YieldedBefore(trace[k - 1].dir[1], k) :
              RemovedBetween(trace[k - 1].dir[1], j, k)
        /\ \A m \in Removals : trace[m].dir = trace[k - 1].dir => m < k

\* a root holding a subdirectory that holds an entry, all removed
C13_Witness ==
    /\ result = "Ok"
    /\ NestedTree
    /\ \E k, m \in Rmdirs : \E j \in Removals :
          /\ j < m
          /\ m < k
          /\ IsRootRmdir(k)
          /\ trace[m].dir = <<Ino.root>>
          /\ trace[j].dir = trace[m].ino

\* ------------------------------------------------------------------------
\* C14: the ancestor stack followed by the current handle is the chain of
\* open directories from the deletion root to the directory being drained.
\* Its first handle is the root, opened by the root path; every later handle
\* was opened under its name as an entry of the handle before it; no handle
\* occurs twice; a descent pushes exactly the handle that was current, the
\* rmdir of a drained directory pops exactly one handle, which becomes
\* current, and no other step changes the stack
\* ------------------------------------------------------------------------
Chain == ancestors \o current

\* the handle h was made by an openat of name h.name under dirfd
OpenedUnder(h, dirfd) ==
    \E k \in DOMAIN trace :
        /\ trace[k].call = "openat"
        /\ trace[k].res = "ok"
        /\ trace[k].dirfd = dirfd
        /\ trace[k].name = h.name
        /\ trace[k].ino = <<fdIno[h.fd]>>
        /\ k < Len(trace)
        /\ trace[k + 1].call = "fdopendir"
        /\ trace[k + 1].res = "ok"
        /\ trace[k + 1].dirfd = h.fd

ChainInv ==
    /\ Len(current) = (IF pc = "loop" THEN 1 ELSE 0)
    /\ pc # "loop" => ancestors = <<>>
    /\ pc = "loop" =>
          /\ Chain[1].name = RootPath
          /\ fdIno[Chain[1].fd] = Ino.root
          /\ OpenedUnder(Chain[1], AT_FDCWD)
          /\ \A k \in 2..Len(Chain) :
                /\ OpenedUnder(Chain[k], Chain[k - 1].fd)
                /\ dirents[fdIno[Chain[k - 1].fd]][Chain[k].name] = fdIno[Chain[k].fd]
          /\ \A j, k \in DOMAIN Chain :
                j # k => Chain[j].fd # Chain[k].fd /\ fdIno[Chain[j].fd] # fdIno[Chain[k].fd]

\* a step of the loop that opened a directory, and one that removed one
Descended == Len(fdIno') = Len(fdIno) + 1 /\ trace'[Len(trace')].res = "ok"

Ascended ==
    /\ trace'[Len(trace')].call = "unlinkat"
    /\ trace'[Len(trace')].flags = AT_REMOVEDIR
    /\ trace'[Len(trace')].res = "ok"

ChainStep ==
    pc = "loop" /\ pc' = "loop" =>
        IF Descended
        THEN /\ Len(ancestors') = Len(ancestors) + 1
             /\ SubSeq(ancestors', 1, Len(ancestors)) = ancestors
             /\ ancestors'[Len(ancestors')].fd = current[1].fd
             /\ current'[1].fd = Len(fdIno')
        ELSE IF Ascended
        THEN /\ Len(ancestors') = Len(ancestors) - 1
             /\ ancestors' = SubSeq(ancestors, 1, Len(ancestors) - 1)
             /\ current' = <<ancestors[Len(ancestors)]>>
        ELSE /\ ancestors' = ancestors
             /\ current'[1].fd = current[1].fd

C14_AncestorsAreChain == []ChainInv /\ [][ChainStep]_vars

\* two ancestors below the current handle, after a directory was already
\* drained, removed and popped
C14_Witness ==
    /\ pc = "loop"
    /\ Len(ancestors) = 2
    /\ \E k \in Rmdirs : trace[k].res = "ok"

\* ------------------------------------------------------------------------
\* C15: the outcomes of open_or_unlink(Some(fd), name) for every descriptor
\* the walker holds and every entry name, in every state of the loop
\* ------------------------------------------------------------------------
\* r issued, after the openat, one unlinkat(fd, name, 0) and nothing else
UnlinksEntry(r, fd, name) ==
    /\ Len(r.ops) = 2
    /\ r.ops[2].call = "unlinkat"
    /\ r.ops[2].dirfd = fd
    /\ r.ops[2].name = name
    /\ r.ops[2].flags = 0

NoUnlink(r) ==
    /\ \A k \in DOMAIN r.ops : r.ops[k].call # "unlinkat"
    /\ r.dirents = dirents

NoHandle(r) == r.handle = <<>> /\ \A fd \in DOMAIN r.fdIno : fd \in DOMAIN fdIno \/ r.nclose[fd] = 1

\* r is Ok(Some(handle)): a new descriptor for the directory openat found,
\* with the entry's name
HandleFor(r, name) ==
    /\ r.ret = "Some"
    /\ Len(r.handle) = 1
    /\ r.handle[1].name = name
    /\ r.handle[1].fd \notin DOMAIN fdIno
    /\ r.fdIno[r.handle[1].fd] = r.ops[1].ino[1]
    /\ r.nclose[r.handle[1].fd] = 0

Propagates(r, err) == r.ret = "Err" /\ r.err = err /\ NoHandle(r)

\* C15 as stated: ENOTDIR from the open: the entry is unlinked under the
\* parent descriptor with flags 0, Ok(None), no handle; another error: no
\* unlink, the error returned; open succeeded: no unlink, a handle with the
\* entry's name returned
C15_OpenOrUnlinkThreeOutcomes ==
    pc = "loop" =>
        \A fd \in OpenFds : \A name \in Names : \A r \in open_or_unlink(<<fd>>, name) :
            /\ r.ops[1].call = "openat" /\ r.ops[1].dirfd = fd /\ r.ops[1].name = name
            /\ IF r.ops[1].res = "ENOTDIR"
               THEN UnlinksEntry(r, fd, name) /\ r.ret = "None" /\ NoHandle(r)
               ELSE IF r.ops[1].res # "ok"
               THEN NoUnlink(r) /\ Propagates(r, r.ops[1].res)
               ELSE NoUnlink(r) /\ HandleFor(r, name)

\* C15 amended: as stated, except that after ENOTDIR the outcome is Ok(None)
\* when the unlinkat succeeds, having removed exactly that entry, and the
\* error of the unlinkat when it fails; and after a successful open the
\* handle is returned when fdopendir succeeds, and when it fails its error
\* is returned with the new descriptor closed
C15_OpenOrUnlinkOutcomes ==
    pc = "loop" =>
        \A fd \in OpenFds : \A name \in Names : \A r \in open_or_unlink(<<fd>>, name) :
            /\ r.ops[1].call = "openat" /\ r.ops[1].dirfd = fd /\ r.ops[1].name = name
            /\ IF r.ops[1].res = "ENOTDIR"
               THEN /\ UnlinksEntry(r, fd, name)
                    /\ NoHandle(r)
                    /\ IF r.ops[2].res = "ok"
                       THEN /\ r.ret = "None"
                            /\ r.dirents = [dirents EXCEPT ![fdIno[fd]] = Del(@, name)]
                       ELSE Propagates(r, r.ops[2].res) /\ r.dirents = dirents
               ELSE IF r.ops[1].res # "ok"
               THEN NoUnlink(r) /\ Propagates(r, r.ops[1].res) /\ Len(r.ops) = 1
               ELSE /\ NoUnlink(r)
                    /\ Len(r.ops) = 2
                    /\ r.ops[2].call = "fdopendir"
                    /\ IF r.ops[2].res = "ok" THEN HandleFor(r, name)
                       ELSE Propagates(r, r.ops[2].res)

\* the walk took the ENOTDIR arm under a parent and went on, then opened a
\* subdirectory, and now holds a directory with entries of each kind
C15_Witness ==
    /\ pc = "loop"
    /\ \E k \in DOMAIN trace : IsLeafFallback(k) /\ trace[k + 1].res = "ok"
    /\ \E k \in DOMAIN trace :
          trace[k].call = "openat" /\ trace[k].res = "ok" /\ trace[k].dirfd # AT_FDCWD
    /\ \E fd \in OpenFds : \E r \in open_or_unlink(<<fd>>, "a") : r.ret = "None"

\* ------------------------------------------------------------------------
\* C16: what the walker does with each entry a stream yields.  Hint DT_REG
\* or DT_LNK: unlinkat(fd, name, 0) on the stream's descriptor, no openat,
\* and the walker stays in the directory.  Hint DT_DIR or DT_UNKNOWN:
\* openat(fd, name) by open_or_unlink; the walker goes on in the new
\* directory exactly when a handle was made, and stays in the same directory
\* when the entry was unlinked as a non-directory.
\* ------------------------------------------------------------------------
Yields == {k \in DOMAIN trace : trace[k].call = "readdir" /\ trace[k].res = "ok"}

\* the syscall at k addresses the entry yielded at y
OnEntry(k, y, call) ==
    /\ k <= Len(trace)
    /\ trace[k].call = call
    /\ trace[k].dirfd = trace[y].dirfd
    /\ trace[k].name = trace[y].name

\* from position k on the walker works in the directory open at fd: the
\* next stream read is on fd, and fd is the current handle when the log
\* ends before k
WalkerIn(fd, k) ==
    IF k <= Len(trace)
    THEN trace[k].call = "readdir" /\ trace[k].dirfd = fd
    ELSE pc = "loop" /\ current[1].fd = fd

C16_EntryDispatch ==
    \A y \in Yields :
        IF trace[y].hint \in {"DT_REG", "DT_LNK"}
        THEN /\ OnEntry(y + 1, y, "unlinkat")
             /\ trace[y + 1].flags = 0
             /\ trace[y + 1].res = "ok" => WalkerIn(trace[y].dirfd, y + 2)
        ELSE /\ trace[y].hint \in {"DT_DIR", "DT_UNKNOWN"}
             /\ OnEntry(y + 1, y, "openat")
             /\ IF trace[y + 1].res = "ok"
                THEN /\ trace[y + 2].call = "fdopendir"
                     /\ trace[y + 2].res = "ok" =>
                            /\ WalkerIn(trace[y + 2].dirfd, y + 3)
                            /\ trace[y + 2].dirfd # trace[y].dirfd
                            /\ fdIno[trace[y + 2].dirfd] = trace[y + 1].ino[1]
                ELSE IsLeafFallback(y + 1) /\ trace[y + 2].res = "ok" =>
                            WalkerIn(trace[y].dirfd, y + 3)

\* one entry of each course: unlinked on its hint, unlinked after the open
\* failed with ENOTDIR, and descended into
C16_Witness ==
    /\ \E y \in Yields : trace[y].hint = "DT_REG" /\ trace[y + 1].res = "ok"
    /\ \E y \in Yields :
          trace[y].hint = "DT_UNKNOWN" /\ IsLeafFallback(y + 1) /\ trace[y + 2].res = "ok"
    /\ \E y \in Yields :
          trace[y].hint = "DT_DIR" /\ trace[y + 1].res = "ok" /\ trace[y + 2].res = "ok"

\* ------------------------------------------------------------------------
\* C17: no symlink is traversed, whatever another process does to the tree.
\* Every symlink points to the directory Ino.outdir outside the tree.  The
\* walker never holds a descriptor for it or for a symlink, never issues a
\* syscall relative to it, leaves its entries alone, never gets an open of
\* a symlink to succeed, and removes a symlink only by an unlinkat of its
\* own entry with flags 0.
\* ------------------------------------------------------------------------
ActsOnSymlink(k) == trace[k].ino # <<>> /\ itype[trace[k].ino[1]] = "symlink"

C17_SymlinkNeverTraversed ==
    /\ \A fd \in DOMAIN fdIno : fdIno[fd] # Ino.outdir /\ itype[fdIno[fd]] = "dir"
    /\ \A k \in DOMAIN trace :
          /\ trace[k].dir # <<Ino.outdir>>
          /\ trace[k].ino \notin {<<Ino.outdir>>, <<Ino.outfile>>} \/ trace[k].call = "lstat"
          /\ ActsOnSymlink(k) =>
                /\ trace[k].call \in {"unlinkat", "unlink"}
                /\ trace[k].flags = 0
    /\ dirents[Ino.outdir] = dirents0[Ino.outdir]
    /\ Linked(Ino.outfile)
    /\ Linked(Ino.outdir)

\* another process put a symlink where the stream had reported a directory,
\* the open of it failed and the walker unlinked the symlink itself
C17_Witness ==
    \E y \in Yields :
        /\ trace[y].hint = "DT_DIR"
        /\ IsLeafFallback(y + 1)
        /\ trace[y + 2].res = "ok"
        /\ trace[y + 2].ino[1] \in AdvPool
        /\ itype[trace[y + 2].ino[1]] = "symlink"

\* ------------------------------------------------------------------------
\* C18: with no other process, every call returns, and the loop returns
\* Ok only in a step taken with an empty ancestor stack whose last syscall
\* is the successful rmdir of the root by its path
\* ------------------------------------------------------------------------
LoopReturnsOk == pc = "loop" /\ result' = "Ok"

\* the last syscall is the rmdir of the root by its path, and it succeeded
RootRmdirDone ==
    /\ IsRootRmdir(Len(trace))
    /\ trace[Len(trace)].res = "ok"
    /\ trace[Len(trace)].ino = <<Ino.root>>
    /\ RootPath \notin DOMAIN dirents[Ino.cwd]

C18_TerminatesOkOnlyAfterRootRmdir ==
    /\ <>Done
    /\ [][LoopReturnsOk =>
            ancestors = <<>> /\ fdIno[current[1].fd] = Ino.root /\ RootRmdirDone']_vars
    /\ [](Done /\ result = "Ok" /\ root0 # "symlink" => RootRmdirDone)

C18_Witness ==
    /\ Done
    /\ result = "Ok"
    /\ NestedTree
    /\ IsRootRmdir(Len(trace))

\* ------------------------------------------------------------------------
\* C19: the unwrap of the root open never panics.  open_or_unlink(None, p)
\* never yields Ok(None), whatever the root path names when it is opened,
\* also when another process replaced or removed the root after the lstat;
\* each outcome is a handle or an error, and nothing is unlinked
\* ------------------------------------------------------------------------
C19_RootOpenNeverNone ==
    /\ result # "panic"
    /\ pc = "open_root" =>
          \A r \in open_or_unlink(<<>>, RootPath) :
              /\ r.ret \in {"Some", "Err"}
              /\ r.ret = "Some" <=> r.handle # <<>>
              /\ r.dirents = dirents
              /\ \A k \in DOMAIN r.ops : r.ops[k].call # "unlinkat"

\* the root was a directory at the lstat and a file or a symlink at the open
C19_Witness ==
    /\ root0 = "dir"
    /\ adv > 0
    /\ Done
    /\ result = "ENOTDIR"
    /\ Len(trace) = 2
    /\ trace[2].call = "openat"
    /\ trace[2].dirfd = AT_FDCWD
    /\ RootPath \in DOMAIN dirents[Ino.cwd]
    /\ itype[dirents[Ino.cwd][RootPath]] = "symlink"
====
